---- MODULE Spec2Model ----
(***************************************************************************)
(* Model of the Extension managed-resource controller                      *)
(* (pkg/controller/postgresql/extension/reconciler.go): the external       *)
(* client's Observe / Create / Update / Delete, the comparator upToDate    *)
(* and the merger lateInit.                                                *)
(*                                                                         *)
(* Strings are sequences of characters.  A pointer to a string is a sequence  *)
(* of length 0 (nil) or 1 (the pointee).  The Extension field is the plain *)
(* string that lines 173-174 and 214 use; the observed struct built by     *)
(* Observe never assigns it a name, so it holds the empty string there.    *)
(* A command text is a sequence whose elements are characters and the      *)
(* literal fragments the code writes (kept as single elements).            *)
(***************************************************************************)
EXTENDS Integers, Sequences, FiniteSets, TLC

\* ---------------------------------------------------------------- bounds
MaxLen == 1
MaxVerLen == 1

\* ---------------------------------------------------------------- strings
DQ == "\""
NUL == "NUL"
Char == {"a", DQ, NUL}

Str(n) == UNION {[1..k -> Char] : k \in 0..n}

EmptyString == <<>>

\* strings.IndexRune(name, 0): first index holding NUL, 0 when there is none
RECURSIVE IndexNUL(_, _)
IndexNUL(s, i) ==
  IF i > Len(s) THEN 0
  ELSE IF s[i] = NUL THEN i
  ELSE IndexNUL(s, i + 1)

\* strings.Replace(name, `"`, `""`, -1)
RECURSIVE DoubleQuotes(_)
DoubleQuotes(s) ==
  IF s = <<>> THEN <<>>
  ELSE IF Head(s) = DQ THEN <<DQ, DQ>> \o DoubleQuotes(Tail(s))
  ELSE <<Head(s)>> \o DoubleQuotes(Tail(s))

TruncateAtNUL(s) ==
  IF IndexNUL(s, 1) > 0 THEN SubSeq(s, 1, IndexNUL(s, 1) - 1) ELSE s

\* pq.QuoteIdentifier as called by Create and Delete
QuoteIdentifier(name) == <<DQ>> \o DoubleQuotes(TruncateAtNUL(name)) \o <<DQ>>

\* ---------------------------------------------------------------- pointers
Nil == <<>>
Ptr(s) == <<s>>
Deref(p) == p[1]

\* ---------------------------------------------------------------- data
Names == Str(MaxLen)
VersionStrings == Str(MaxVerLen)
Versions == {Nil} \cup {Ptr(v) : v \in VersionStrings}
Templates == {Nil, Ptr(<<"a">>)}

\* v1alpha1.ExtensionParameters
ExtensionParameters == [Extension : Names, Version : Versions, Template : Templates]

\* ---------------------------------------------------------------- errors
errTrackPCUsage == "cannot track ProviderConfig usage"
errGetPC == "cannot get ProviderConfig"
errNoSecretRef == "ProviderConfig does not reference a credentials Secret"
errGetSecret == "cannot get credentials Secret"
errNotExtension == "managed resource is not a Extension custom resource"
errSelectExtension == "cannot select extension"
errCreateExtension == "cannot create extension"
errDropExtension == "cannot drop extension"

NilErr == <<>>
\* errors.New(msg)
NewError(msg) == <<msg>>
\* errors.Wrap(err, msg): nil stays nil, otherwise msg is put in front
Wrap(err, msg) == IF err = NilErr THEN NilErr ELSE <<msg>> \o err

\* ---------------------------------------------------------------- comparator
\* a comparator that also compares the create-only Template field
upToDateWithTemplate(obs, des) == des = obs

\* upToDate: cmp.Equal(desired, observed) ignoring Template
upToDate(obs, des) ==
  /\ des.Extension = obs.Extension
  /\ des.Version = obs.Version

\* ---------------------------------------------------------------- merger
\* a merger that lets the observed value win over a set desired value
lateInitOverwrite(obs, des) ==
  [desired |-> [des EXCEPT !.Extension = obs.Extension, !.Version = obs.Version],
   li |-> TRUE]

\* a merger that takes the observed version whether or not one is desired
lateInitVersionAlways(obs, des) ==
  LET d1 == IF des.Extension = EmptyString
            THEN [des EXCEPT !.Extension = obs.Extension] ELSE des
      li1 == des.Extension = EmptyString
      d2 == [d1 EXCEPT !.Version = obs.Version]
      li2 == li1 \/ d1.Version # obs.Version
  IN [desired |-> d2, li |-> li2]

\* lateInit: returns the mutated desired struct and the li flag
lateInit(obs, des) ==
  LET d1 == IF des.Extension = EmptyString
            THEN [des EXCEPT !.Extension = obs.Extension] ELSE des
      li1 == des.Extension = EmptyString
      d2 == IF d1.Version = Nil
            THEN [d1 EXCEPT !.Version = obs.Version] ELSE d1
      li2 == li1 \/ d1.Version = Nil
  IN [desired |-> d2, li |-> li2]

\* ---------------------------------------------------------------- commands
KwCreate == "CREATE EXTENSION "
KwVersion == " VERSION "
KwDrop == "DROP EXTENSION "
Keywords == {KwCreate, KwVersion, KwDrop}

\* the text of the point lookup as the code concatenates it (the comma after
\* extversion included); the identity is not part of it
SelectQuery == <<"SELECT ", "extversion, ", "FROM pg_extension ", "WHERE extname=$1">>

\* xsql.Query
Query(str, params) == [String |-> str, Parameters |-> params]

\* a Create that writes the version into the command as it is
CreateCommandRaw(des) ==
  <<KwCreate>>
  \o (IF des.Extension # EmptyString THEN QuoteIdentifier(des.Extension) ELSE <<>>)
  \o (IF des.Version # Nil THEN <<KwVersion>> \o Deref(des.Version) ELSE <<>>)

\* the command text Create builds in its strings.Builder
CreateCommand(des) ==
  <<KwCreate>>
  \o (IF des.Extension # EmptyString THEN QuoteIdentifier(des.Extension) ELSE <<>>)
  \o (IF des.Version # Nil THEN <<KwVersion>> \o QuoteIdentifier(Deref(des.Version)) ELSE <<>>)

\* the command text Delete builds
DropCommand(name) == <<KwDrop>> \o QuoteIdentifier(name)

\* ---------------------------------------------------------------- executor
\* The live system: a set of <<extname, extversion>> rows, one per extname.
DefaultVersion == <<"a">>
ErrNoRows == <<"sql: no rows in result set">>
ErrTransport == <<"executor failure">>
ErrCommand == <<"command rejected">>
ErrKube == <<"kube client failure">>

\* a classification that takes every lookup failure for "no rows"
IsNoRowsOrFailure(err) == err # NilErr

\* xsql.IsNoRows
IsNoRows(err) == err = ErrNoRows

HasRow(rows, name) == \E r \in rows : r[1] = name
RowVersion(rows, name) == (CHOOSE r \in rows : r[1] = name)[2]

\* The scanners below bind their intermediate results through singleton sets,
\* so that each one is computed once.

\* reads one delimited identifier; s0 starts right after the opening quote
RECURSIVE LexQuoted(_, _)
LexQuoted(s0, acc0) ==
  CHOOSE r \in
    { IF s = <<>> THEN [ok |-> FALSE, ident |-> acc, rest |-> <<>>]
      ELSE IF Head(s) = DQ
           THEN IF Len(s) >= 2 /\ s[2] = DQ
                THEN LexQuoted(Tail(Tail(s)), Append(acc, DQ))
                ELSE [ok |-> TRUE, ident |-> acc, rest |-> Tail(s)]
           ELSE LexQuoted(Tail(s), Append(acc, Head(s)))
      : s \in {s0}, acc \in {acc0} } : TRUE

\* splits a command text into literal fragments and delimited identifiers;
\* toks0 holds the tokens read so far
RECURSIVE LexFrom(_, _)
LexFrom(s0, toks0) ==
  CHOOSE r \in
    { IF s = <<>> THEN [ok |-> TRUE, toks |-> toks]
      ELSE IF Head(s) \in Keywords
           THEN LexFrom(Tail(s), Append(toks, [kw |-> Head(s), ident |-> <<>>]))
           ELSE IF Head(s) = DQ
                THEN CHOOSE r2 \in
                       { IF q.ok
                         THEN LexFrom(q.rest, Append(toks, [kw |-> "ident", ident |-> q.ident]))
                         ELSE [ok |-> FALSE, toks |-> toks]
                         : q \in {LexQuoted(Tail(s), <<>>)} } : TRUE
                ELSE [ok |-> FALSE, toks |-> toks]
      : s \in {s0}, toks \in {toks0} } : TRUE

Lex(s) == LexFrom(s, <<>>)

TokKinds(toks) == [i \in 1..Len(toks) |-> toks[i].kw]

\* what the live system does with a command: the error it reports and the rows left
ExecCommand(cmd, rows) ==
  CHOOSE res \in
    { IF ~lx.ok THEN [err |-> ErrCommand, rows |-> rows]
      ELSE IF k = <<KwCreate, "ident">> \/ k = <<KwCreate, "ident", KwVersion, "ident">>
           THEN IF \/ lx.toks[2].ident = <<>>
                   \/ HasRow(rows, lx.toks[2].ident)
                   \/ (Len(k) = 4 /\ lx.toks[4].ident = <<>>)
                THEN [err |-> ErrCommand, rows |-> rows]
                ELSE [err |-> NilErr,
                      rows |-> rows \cup {<<lx.toks[2].ident,
                                            IF Len(k) = 4 THEN lx.toks[4].ident
                                            ELSE DefaultVersion>>}]
      ELSE IF k = <<KwDrop, "ident">>
           THEN IF HasRow(rows, lx.toks[2].ident)
                THEN [err |-> NilErr, rows |-> {r \in rows : r[1] # lx.toks[2].ident}]
                ELSE [err |-> ErrCommand, rows |-> rows]
      ELSE [err |-> ErrCommand, rows |-> rows]
      : lx \in {Lex(cmd)}, k \in {TokKinds(Lex(cmd).toks)} } : TRUE

\* db.Exec: a transport failure, or the live system's answer
Exec(q, rows, fail) ==
  IF fail THEN [err |-> ErrTransport, rows |-> rows] ELSE ExecCommand(q.String, rows)

\* db.Scan into the version target: a transport failure, no rows, or the row's version
Scan(q, rows, fail, target) ==
  IF fail THEN [err |-> ErrTransport, version |-> target]
  ELSE IF ~HasRow(rows, q.Parameters[1]) THEN [err |-> ErrNoRows, version |-> target]
  ELSE [err |-> NilErr, version |-> Ptr(RowVersion(rows, q.Parameters[1]))]

\* ---------------------------------------------------------------- state
VARIABLES
  desired,    \* cr.Spec.ForProvider of the Extension resource
  extName,    \* meta.GetExternalName(cr), the identity
  live,       \* rows of pg_extension in the live system
  available,  \* whether cr carries the Available condition
  observed,   \* the observed struct of the call just made (zero when it built none)
  issued,     \* the queries the latest call handed to the executor
  last        \* the latest call and what it returned

vars == <<desired, extName, live, available, observed, issued, last>>

NoCall ==
  [op |-> "none", isExt |-> TRUE, cause |-> NilErr, err |-> NilErr, exists |-> FALSE, li |-> FALSE,
   utd |-> FALSE, before |-> desired, rowsBefore |-> live, conds |-> {}]

\* the zero value of v1alpha1.ExtensionParameters
ZeroParameters == [Extension |-> EmptyString, Version |-> Nil, Template |-> Nil]

\* names a row of the live system can hold
RowNames == {n \in Names : n # <<>> /\ IndexNUL(n, 1) = 0}
\* the versions an extension installed before the first call can have
InstalledVersions == {DefaultVersion, <<DQ>>}

Init ==
  /\ desired \in ExtensionParameters
  /\ extName \in Names
  /\ live \in {{}} \cup {{<<extName, v>>} : v \in IF extName \in RowNames THEN InstalledVersions ELSE {}}
  /\ available = FALSE
  /\ observed = ZeroParameters
  /\ issued = <<>>
  /\ last = NoCall

\* ---------------------------------------------------------------- Observe
\* an Observe that merges before it has looked at the lookup's error
ObserveMergeFirst(isExt, fail) ==
  LET q == Query(SelectQuery, <<extName>>)
      sc == Scan(q, live, fail, Ptr(EmptyString))
      obs == [Extension |-> EmptyString, Version |-> sc.version, Template |-> Nil]
      m == lateInit(obs, desired)
      ret(err, exists, li, utd, conds) ==
        [op |-> "Observe", isExt |-> isExt, cause |-> IF isExt THEN sc.err ELSE NilErr,
         err |-> err, exists |-> exists, li |-> li,
         utd |-> utd, before |-> desired, rowsBefore |-> live, conds |-> conds]
  IN IF ~isExt
     THEN /\ last' = ret(NewError(errNotExtension), FALSE, FALSE, FALSE, {})
          /\ issued' = <<>>
          /\ observed' = ZeroParameters
          /\ UNCHANGED <<desired, extName, live, available>>
     ELSE IF IsNoRows(sc.err)
     THEN /\ last' = ret(NilErr, FALSE, FALSE, FALSE, {})
          /\ issued' = <<q>>
          /\ observed' = obs
          /\ desired' = m.desired
          /\ UNCHANGED <<extName, live, available>>
     ELSE IF sc.err # NilErr
     THEN /\ last' = ret(Wrap(sc.err, errSelectExtension), FALSE, FALSE, FALSE, {})
          /\ issued' = <<q>>
          /\ observed' = obs
          /\ UNCHANGED <<desired, extName, live, available>>
     ELSE /\ available' = TRUE
          /\ desired' = m.desired
          /\ observed' = obs
          /\ issued' = <<q>>
          /\ last' = ret(NilErr, TRUE, m.li, upToDate(obs, m.desired), {"Available"})
          /\ UNCHANGED <<extName, live>>

\* an Observe that compares before it merges
ObserveCompareFirst(isExt, fail) ==
  LET q == Query(SelectQuery, <<extName>>)
      sc == Scan(q, live, fail, Ptr(EmptyString))
      obs == [Extension |-> EmptyString, Version |-> sc.version, Template |-> Nil]
      m == lateInit(obs, desired)
      ret(err, exists, li, utd, conds) ==
        [op |-> "Observe", isExt |-> isExt, cause |-> IF isExt THEN sc.err ELSE NilErr,
         err |-> err, exists |-> exists, li |-> li,
         utd |-> utd, before |-> desired, rowsBefore |-> live, conds |-> conds]
  IN IF ~isExt
     THEN /\ last' = ret(NewError(errNotExtension), FALSE, FALSE, FALSE, {})
          /\ issued' = <<>>
          /\ observed' = ZeroParameters
          /\ UNCHANGED <<desired, extName, live, available>>
     ELSE IF IsNoRows(sc.err)
     THEN /\ last' = ret(NilErr, FALSE, FALSE, FALSE, {})
          /\ issued' = <<q>>
          /\ observed' = obs
          /\ UNCHANGED <<desired, extName, live, available>>
     ELSE IF sc.err # NilErr
     THEN /\ last' = ret(Wrap(sc.err, errSelectExtension), FALSE, FALSE, FALSE, {})
          /\ issued' = <<q>>
          /\ observed' = obs
          /\ UNCHANGED <<desired, extName, live, available>>
     ELSE /\ available' = TRUE
          /\ desired' = m.desired
          /\ observed' = obs
          /\ issued' = <<q>>
          /\ last' = ret(NilErr, TRUE, m.li, upToDate(obs, desired), {"Available"})
          /\ UNCHANGED <<extName, live>>

\* an Observe that sets the Available condition before it looks at the lookup's error
ObserveAvailableFirst(isExt, fail) ==
  LET q == Query(SelectQuery, <<extName>>)
      sc == Scan(q, live, fail, Ptr(EmptyString))
      obs == [Extension |-> EmptyString, Version |-> sc.version, Template |-> Nil]
      m == lateInit(obs, desired)
      ret(err, exists, li, utd, conds) ==
        [op |-> "Observe", isExt |-> isExt, cause |-> IF isExt THEN sc.err ELSE NilErr,
         err |-> err, exists |-> exists, li |-> li,
         utd |-> utd, before |-> desired, rowsBefore |-> live, conds |-> conds]
  IN IF ~isExt
     THEN /\ last' = ret(NewError(errNotExtension), FALSE, FALSE, FALSE, {})
          /\ issued' = <<>>
          /\ observed' = ZeroParameters
          /\ UNCHANGED <<desired, extName, live, available>>
     ELSE IF IsNoRows(sc.err)
     THEN /\ last' = ret(NilErr, FALSE, FALSE, FALSE, {"Available"})
          /\ issued' = <<q>>
          /\ observed' = obs
          /\ available' = TRUE
          /\ UNCHANGED <<desired, extName, live>>
     ELSE IF sc.err # NilErr
     THEN /\ last' = ret(Wrap(sc.err, errSelectExtension), FALSE, FALSE, FALSE, {})
          /\ issued' = <<q>>
          /\ observed' = obs
          /\ UNCHANGED <<desired, extName, live, available>>
     ELSE /\ available' = TRUE
          /\ desired' = m.desired
          /\ observed' = obs
          /\ issued' = <<q>>
          /\ last' = ret(NilErr, TRUE, m.li, upToDate(obs, m.desired), {"Available"})
          /\ UNCHANGED <<extName, live>>

Observe(isExt, fail) ==
  LET q == Query(SelectQuery, <<extName>>)
      sc == Scan(q, live, fail, Ptr(EmptyString))
      obs == [Extension |-> EmptyString, Version |-> sc.version, Template |-> Nil]
      m == lateInit(obs, desired)
      ret(err, exists, li, utd, conds) ==
        [op |-> "Observe", isExt |-> isExt, cause |-> IF isExt THEN sc.err ELSE NilErr,
         err |-> err, exists |-> exists, li |-> li,
         utd |-> utd, before |-> desired, rowsBefore |-> live, conds |-> conds]
  IN IF ~isExt
     THEN /\ last' = ret(NewError(errNotExtension), FALSE, FALSE, FALSE, {})
          /\ issued' = <<>>
          /\ observed' = ZeroParameters
          /\ UNCHANGED <<desired, extName, live, available>>
     ELSE IF IsNoRows(sc.err)
     THEN /\ last' = ret(NilErr, FALSE, FALSE, FALSE, {})
          /\ issued' = <<q>>
          /\ observed' = obs
          /\ UNCHANGED <<desired, extName, live, available>>
     ELSE IF sc.err # NilErr
     THEN /\ last' = ret(Wrap(sc.err, errSelectExtension), FALSE, FALSE, FALSE, {})
          /\ issued' = <<q>>
          /\ observed' = obs
          /\ UNCHANGED <<desired, extName, live, available>>
     ELSE /\ available' = TRUE
          /\ desired' = m.desired
          /\ observed' = obs
          /\ issued' = <<q>>
          /\ last' = ret(NilErr, TRUE, m.li, upToDate(obs, m.desired), {"Available"})
          /\ UNCHANGED <<extName, live>>

\* ---------------------------------------------------------------- Create
\* a Create that wraps the executor's error with the label of Delete
CreateWrongLabel(isExt, fail) ==
  LET q == Query(CreateCommand(desired), <<>>)
      ex == Exec(q, live, fail)
      ret(err) ==
        [op |-> "Create", isExt |-> isExt, cause |-> IF isExt THEN ex.err ELSE NilErr,
         err |-> err, exists |-> FALSE, li |-> FALSE,
         utd |-> FALSE, before |-> desired, rowsBefore |-> live, conds |-> {}]
  IN IF ~isExt
     THEN /\ last' = ret(NewError(errNotExtension))
          /\ issued' = <<>>
          /\ observed' = ZeroParameters
          /\ UNCHANGED <<desired, extName, live, available>>
     ELSE /\ last' = ret(Wrap(ex.err, errDropExtension))
          /\ issued' = <<q>>
          /\ live' = ex.rows
          /\ observed' = ZeroParameters
          /\ UNCHANGED <<desired, extName, available>>

Create(isExt, fail) ==
  LET q == Query(CreateCommand(desired), <<>>)
      ex == Exec(q, live, fail)
      ret(err) ==
        [op |-> "Create", isExt |-> isExt, cause |-> IF isExt THEN ex.err ELSE NilErr,
         err |-> err, exists |-> FALSE, li |-> FALSE,
         utd |-> FALSE, before |-> desired, rowsBefore |-> live, conds |-> {}]
  IN IF ~isExt
     THEN /\ last' = ret(NewError(errNotExtension))
          /\ issued' = <<>>
          /\ observed' = ZeroParameters
          /\ UNCHANGED <<desired, extName, live, available>>
     ELSE /\ last' = ret(Wrap(ex.err, errCreateExtension))
          /\ issued' = <<q>>
          /\ live' = ex.rows
          /\ observed' = ZeroParameters
          /\ UNCHANGED <<desired, extName, available>>

\* ---------------------------------------------------------------- Update
\* an Update that re-issues the creation command
UpdateIssuing(isExt) ==
  /\ last' = [op |-> "Update", isExt |-> isExt, cause |-> NilErr,
              err |-> IF isExt THEN NilErr ELSE NewError(errNotExtension),
              exists |-> FALSE, li |-> FALSE, utd |-> FALSE, before |-> desired,
              rowsBefore |-> live, conds |-> {}]
  /\ issued' = IF isExt THEN <<Query(CreateCommand(desired), <<>>)>> ELSE <<>>
  /\ observed' = ZeroParameters
  /\ UNCHANGED <<desired, extName, live, available>>

Update(isExt) ==
  /\ last' = [op |-> "Update", isExt |-> isExt, cause |-> NilErr,
              err |-> IF isExt THEN NilErr ELSE NewError(errNotExtension),
              exists |-> FALSE, li |-> FALSE, utd |-> FALSE, before |-> desired,
              rowsBefore |-> live, conds |-> {}]
  /\ issued' = <<>>
  /\ observed' = ZeroParameters
  /\ UNCHANGED <<desired, extName, live, available>>

\* ---------------------------------------------------------------- Delete
\* a Delete that treats an already absent extension as success
DeleteIgnoringAbsent(isExt, fail) ==
  LET q == Query(DropCommand(extName), <<>>)
      ex == Exec(q, live, fail)
  IN /\ last' = [op |-> "Delete", isExt |-> isExt,
                 cause |-> IF isExt THEN ex.err ELSE NilErr,
                 err |-> IF ~isExt THEN NewError(errNotExtension)
                         ELSE IF ex.err = ErrCommand THEN NilErr
                         ELSE Wrap(ex.err, errDropExtension),
                 exists |-> FALSE, li |-> FALSE, utd |-> FALSE, before |-> desired,
                 rowsBefore |-> live, conds |-> {}]
     /\ issued' = IF isExt THEN <<q>> ELSE <<>>
     /\ live' = IF isExt THEN ex.rows ELSE live
     /\ observed' = ZeroParameters
     /\ UNCHANGED <<desired, extName, available>>

\* a Delete that ignores the outcome of the type assertion
DeleteUnchecked(isExt, fail) ==
  LET q == Query(DropCommand(extName), <<>>)
      ex == Exec(q, live, fail)
      ret(err) ==
        [op |-> "Delete", isExt |-> isExt, cause |-> ex.err,
         err |-> err, exists |-> FALSE, li |-> FALSE,
         utd |-> FALSE, before |-> desired, rowsBefore |-> live, conds |-> {}]
  IN IF FALSE
     THEN /\ last' = ret(NewError(errNotExtension))
          /\ issued' = <<>>
          /\ observed' = ZeroParameters
          /\ UNCHANGED <<desired, extName, live, available>>
     ELSE /\ last' = ret(Wrap(ex.err, errDropExtension))
          /\ issued' = <<q>>
          /\ live' = ex.rows
          /\ observed' = ZeroParameters
          /\ UNCHANGED <<desired, extName, available>>

Delete(isExt, fail) ==
  LET q == Query(DropCommand(extName), <<>>)
      ex == Exec(q, live, fail)
      ret(err) ==
        [op |-> "Delete", isExt |-> isExt, cause |-> IF isExt THEN ex.err ELSE NilErr,
         err |-> err, exists |-> FALSE, li |-> FALSE,
         utd |-> FALSE, before |-> desired, rowsBefore |-> live, conds |-> {}]
  IN IF ~isExt
     THEN /\ last' = ret(NewError(errNotExtension))
          /\ issued' = <<>>
          /\ observed' = ZeroParameters
          /\ UNCHANGED <<desired, extName, live, available>>
     ELSE /\ last' = ret(Wrap(ex.err, errDropExtension))
          /\ issued' = <<q>>
          /\ live' = ex.rows
          /\ observed' = ZeroParameters
          /\ UNCHANGED <<desired, extName, available>>

\* ---------------------------------------------------------------- Connect
\* the collaborator step of Connect that fails first, if any: tracking the
\* ProviderConfig usage, getting the ProviderConfig, a ProviderConfig without
\* a connection secret reference, getting the secret
ConnectFailures == {"none", "track", "getPC", "noRef", "getSecret"}

Connect(isExt, failure) ==
  LET ret(cause, err) ==
        [op |-> "Connect", isExt |-> isExt, cause |-> cause, err |-> err,
         exists |-> FALSE, li |-> FALSE, utd |-> FALSE, before |-> desired,
         rowsBefore |-> live, conds |-> {}]
  IN /\ last' = IF ~isExt THEN ret(NilErr, NewError(errNotExtension))
                ELSE IF failure = "track" THEN ret(ErrKube, Wrap(ErrKube, errTrackPCUsage))
                ELSE IF failure = "getPC" THEN ret(ErrKube, Wrap(ErrKube, errGetPC))
                ELSE IF failure = "noRef" THEN ret(NilErr, NewError(errNoSecretRef))
                ELSE IF failure = "getSecret" THEN ret(ErrKube, Wrap(ErrKube, errGetSecret))
                ELSE ret(NilErr, NilErr)
     /\ issued' = <<>>
     /\ observed' = ZeroParameters
     /\ UNCHANGED <<desired, extName, live, available>>

\* ---------------------------------------------------------------- driver
\* A resource of another kind never reaches a collaborator, so no failure is
\* drawn for it.
Failures(isExt) == IF isExt THEN BOOLEAN ELSE {FALSE}

ObserveStep == \E isExt \in BOOLEAN : \E fail \in Failures(isExt) : Observe(isExt, fail)
CreateStep == \E isExt \in BOOLEAN : \E fail \in Failures(isExt) : Create(isExt, fail)
UpdateStep == \E isExt \in BOOLEAN : Update(isExt)
DeleteStep == \E isExt \in BOOLEAN : \E fail \in Failures(isExt) : Delete(isExt, fail)
ConnectStep ==
  \E isExt \in BOOLEAN : \E failure \in (IF isExt THEN ConnectFailures ELSE {"none"}) :
    Connect(isExt, failure)

Next ==
  \/ ObserveStep
  \/ CreateStep
  \/ UpdateStep
  \/ DeleteStep
  \/ ConnectStep

Spec == Init /\ [][Next]_vars

\* ---------------------------------------------------------------- comparator and merger alone
\* The two pure functions applied to arbitrary observed and desired structs.
FnInit ==
  /\ desired \in ExtensionParameters
  /\ observed \in ExtensionParameters
  /\ extName = EmptyString
  /\ live = {}
  /\ available = FALSE
  /\ issued = <<>>
  /\ last = NoCall

FnLateInit ==
  LET m == lateInit(observed, desired)
  IN /\ desired' = m.desired
     /\ last' = [NoCall EXCEPT !.op = "lateInit", !.li = m.li]
     /\ UNCHANGED <<extName, live, available, observed, issued>>

FnUpToDate ==
  /\ last' = [NoCall EXCEPT !.op = "upToDate", !.utd = upToDate(observed, desired)]
  /\ UNCHANGED <<desired, extName, live, available, observed, issued>>

FnNext ==
  \/ FnLateInit
  \/ FnUpToDate

FnSpec == FnInit /\ [][FnNext]_vars

\* ---------------------------------------------------------------- reconcile cycle
\* The orchestrator's cycle over one Extension with an executor whose transport
\* never fails: Observe, then Create when the resource does not exist, Update
\* when it exists and is not up to date, then Observe again.
LoopInit == Init /\ live = {}

LoopObserve ==
  /\ \/ last.op \in {"none", "Create", "Update"}
     \/ last.op = "Observe" /\ (last.err # NilErr \/ (last.exists /\ last.utd))
  /\ Observe(TRUE, FALSE)

LoopCreate ==
  /\ last.op = "Observe" /\ last.err = NilErr /\ ~last.exists
  /\ Create(TRUE, FALSE)

LoopUpdate ==
  /\ last.op = "Observe" /\ last.err = NilErr /\ last.exists /\ ~last.utd
  /\ Update(TRUE)

LoopNext ==
  \/ LoopObserve
  \/ LoopCreate
  \/ LoopUpdate

LoopSpec == LoopInit /\ [][LoopNext]_vars /\ WF_vars(LoopNext)

\* ---------------------------------------------------------------- properties
Range(f) == {f[i] : i \in DOMAIN f}
Idents(toks) == [i \in 1..Len(toks) |-> toks[i].ident]
IssuedText == issued[1].String

\* C1: an Observe that finds the row of an Extension whose desired name is set
\* and whose desired version is unset returns Found with lateInitialized, sets
\* desired.version to the row's version, and upToDate(observed, desired) of
\* that call is true.
C1_ObserveLateInitUpToDate ==
  (/\ last.op = "Observe" /\ last.isExt /\ last.cause = NilErr
   /\ last.before.Extension # EmptyString /\ last.before.Version = Nil)
  => /\ last.exists /\ last.li
     /\ desired.Version = Ptr(RowVersion(last.rowsBefore, extName))
     /\ upToDate(observed, desired)
     /\ last.utd

\* C2: from an absent live resource and a desired state with a set name and a
\* version unset or equal to the installed one, with an executor that never
\* fails, the cycle eventually stays at Observe = Found, up to date, not late
\* initialized.
C2_Premise ==
  /\ desired.Extension # EmptyString
  /\ desired.Version \in {Nil, Ptr(DefaultVersion)}
  /\ live = {}
C2_Converged == last.op = "Observe" /\ last.exists /\ last.utd /\ ~last.li
C2_Convergence == (C2_Premise /\ [](last.err = NilErr)) => <>[]C2_Converged

\* C3: lateInit leaves every desired field that was set as it was, whatever
\* the observed struct holds.
C3_LateInitKeepsSetFields ==
  last.op = "lateInit" =>
    /\ last.before.Extension # EmptyString => desired.Extension = last.before.Extension
    /\ last.before.Version # Nil => desired.Version = last.before.Version
C3_Witness ==
  /\ last.op = "lateInit"
  /\ last.before.Extension # EmptyString /\ observed.Extension # last.before.Extension
  /\ last.before.Version # Nil /\ observed.Version # last.before.Version
  /\ desired = last.before

\* C4: with desired.version unset and observed.version concrete, the first
\* lateInit sets desired.version to the observed one and returns true, and a
\* second lateInit with the same observed struct changes nothing and returns
\* false.
C4_LateInitIdempotent ==
  [][/\ (last'.op = "lateInit" /\ desired.Version = Nil /\ observed.Version # Nil)
        => (desired'.Version = observed.Version /\ last'.li)
     /\ (/\ last.op = "lateInit" /\ last.before.Version = Nil /\ observed.Version # Nil
         /\ last'.op = "lateInit")
        => (desired' = desired /\ ~last'.li)]_vars

\* C5: upToDate is true of two fully specified structs that agree on name and
\* version, and its result is the same for every template in either argument.
FullySpecified(x) == x.Extension # EmptyString /\ x.Version # Nil
C5_UpToDateIgnoresTemplate ==
  last.op = "upToDate" =>
    /\ (/\ FullySpecified(desired)
        /\ observed.Extension = desired.Extension /\ observed.Version = desired.Version)
       => last.utd
    /\ \A t1 \in Templates, t2 \in Templates :
         upToDate([observed EXCEPT !.Template = t1], [desired EXCEPT !.Template = t2])
           = last.utd
C5_Witness ==
  /\ last.op = "upToDate" /\ last.utd
  /\ FullySpecified(desired)
  /\ observed.Template # desired.Template

\* C6: an Observe whose lookup reports no rows returns NotFound without an
\* error, with neither flag set, and leaves the desired state and the
\* conditions alone.
C6_ObserveNotFound ==
  (last.op = "Observe" /\ last.isExt /\ IsNoRows(last.cause)) =>
    /\ ~last.exists /\ last.err = NilErr
    /\ ~last.li /\ ~last.utd
    /\ desired = last.before
    /\ last.conds = {}
C6_Witness ==
  /\ last.op = "Observe" /\ last.isExt /\ IsNoRows(last.cause)
  /\ desired.Version = Nil /\ ~last.exists

\* C7: Update of an Extension returns no error, issues no command and changes
\* neither the desired state nor the live system.
C7_UpdateNoOp ==
  (last.op = "Update" /\ last.isExt) =>
    /\ last.err = NilErr
    /\ issued = <<>>
    /\ desired = last.before
    /\ live = last.rowsBefore
C7_Witness ==
  /\ last.op = "Update" /\ last.isExt
  /\ desired.Version # Nil
  /\ \E r \in live : r[1] = extName /\ Ptr(r[2]) # desired.Version

\* C8: the command Create issues names the identity as the extension to create
\* and carries a VERSION modifier exactly when desired.version is set, with
\* that version as its value.
C8_CreateNamesIdentity ==
  (last.op = "Create" /\ last.isExt) =>
    LET lx == Lex(IssuedText)
        k == TokKinds(lx.toks)
        id == Idents(lx.toks)
    IN /\ lx.ok
       /\ Len(k) >= 2 /\ k[1] = KwCreate /\ k[2] = "ident" /\ id[2] = extName
       /\ IF desired.Version = Nil
          THEN Len(k) = 2
          ELSE Len(k) = 4 /\ k[3] = KwVersion /\ k[4] = "ident"
               /\ id[4] = Deref(desired.Version)

\* C9: every command Create and Delete issue is made of the fixed fragments
\* and of delimited identifiers that read back as the user's strings (up to a
\* NUL), and Observe's command text holds no user character: the identity is
\* its only bound parameter.
C9_IdentifiersQuoted ==
  /\ (last.op = "Create" /\ last.isExt) =>
       LET lx == Lex(IssuedText)
       IN /\ lx.ok
          /\ lx.toks =
               <<[kw |-> KwCreate, ident |-> <<>>]>>
               \o (IF desired.Extension # EmptyString
                   THEN <<[kw |-> "ident", ident |-> TruncateAtNUL(desired.Extension)]>>
                   ELSE <<>>)
               \o (IF desired.Version # Nil
                   THEN <<[kw |-> KwVersion, ident |-> <<>>],
                          [kw |-> "ident", ident |-> TruncateAtNUL(Deref(desired.Version))]>>
                   ELSE <<>>)
          /\ issued[1].Parameters = <<>>
  /\ (last.op = "Delete" /\ last.isExt) =>
       LET lx == Lex(IssuedText)
       IN /\ lx.ok
          /\ lx.toks = <<[kw |-> KwDrop, ident |-> <<>>],
                         [kw |-> "ident", ident |-> TruncateAtNUL(extName)]>>
          /\ issued[1].Parameters = <<>>
  /\ (last.op = "Observe" /\ last.isExt) =>
       /\ Range(IssuedText) \cap Char = {}
       /\ issued[1].Parameters = <<extName>>
C9_Witness ==
  /\ last.op = "Create" /\ last.isExt
  /\ DQ \in Range(desired.Extension)
  /\ desired.Version # Nil /\ DQ \in Range(Deref(desired.Version))

\* C10: Delete of an Extension issues exactly one command, the drop of the
\* identity; it returns the executor's error under the "cannot drop extension"
\* label when the executor fails, an absent extension included, and no error
\* when the executor succeeds.
C10_DeleteWrapsFailure ==
  (last.op = "Delete" /\ last.isExt) =>
    /\ Len(issued) = 1
    /\ Lex(IssuedText).toks = <<[kw |-> KwDrop, ident |-> <<>>],
                                [kw |-> "ident", ident |-> TruncateAtNUL(extName)]>>
    /\ last.cause # NilErr => last.err = <<errDropExtension>> \o last.cause
    /\ last.cause = NilErr => last.err = NilErr
    /\ ~HasRow(last.rowsBefore, TruncateAtNUL(extName)) =>
         (last.err # NilErr /\ last.err[1] = errDropExtension)
C10_Witness ==
  /\ last.op = "Delete" /\ last.isExt
  /\ ~HasRow(last.rowsBefore, TruncateAtNUL(extName))
  /\ last.cause = ErrCommand /\ last.err # NilErr


\* C11: Create of an Extension hands exactly one command to the executor; it
\* returns the executor's error under the "cannot create extension" label when
\* the executor fails, and no error when the executor succeeds.
C11_CreateWrapsFailure ==
  (last.op = "Create" /\ last.isExt) =>
    /\ Len(issued) = 1
    /\ issued[1].String[1] = KwCreate
    /\ last.cause # NilErr => last.err = <<errCreateExtension>> \o last.cause
    /\ last.cause = NilErr => last.err = NilErr
C11_Witness ==
  /\ last.op = "Create" /\ last.isExt
  /\ last.cause = ErrTransport /\ last.err = <<errCreateExtension>> \o ErrTransport


\* C12: an Observe whose lookup fails with anything but "no rows" returns the
\* failure under the "cannot select extension" label, is neither Found nor
\* NotFound, and leaves the desired state and the conditions alone.
C12_ObserveSurfacesFailure ==
  (last.op = "Observe" /\ last.isExt /\ last.cause \notin {NilErr, ErrNoRows}) =>
    /\ last.err = <<errSelectExtension>> \o last.cause
    /\ last.err # NilErr /\ ~last.exists
    /\ ~last.li /\ ~last.utd
    /\ desired = last.before
    /\ last.conds = {} /\ Len(issued) = 1
C12_Witness ==
  /\ last.op = "Observe" /\ last.isExt
  /\ last.cause = ErrTransport
  /\ desired.Version = Nil /\ HasRow(live, extName)


\* C13: Connect, Observe, Create, Update and Delete, handed a resource that is
\* not an Extension, return the "managed resource is not a Extension custom
\* resource" error, issue no command and change nothing.
C13_TypeMismatchFatal ==
  (last.op # "none" /\ ~last.isExt) =>
    /\ last.err = <<errNotExtension>>
    /\ issued = <<>>
    /\ desired = last.before
    /\ live = last.rowsBefore
    /\ last.conds = {} /\ ~last.exists /\ ~last.li /\ ~last.utd
C13_Witness ==
  /\ last.op = "Delete" /\ ~last.isExt
  /\ HasRow(live, extName) /\ last.err = <<errNotExtension>>


\* C14: on a successful lookup the merger runs before the comparator: the
\* upToDate flag Observe returns is upToDate(observed, desired) on the desired
\* state as late initialization left it.
C14_MergeBeforeCompare ==
  (last.op = "Observe" /\ last.isExt /\ last.exists) =>
    /\ desired = lateInit(observed, last.before).desired
    /\ last.utd = upToDate(observed, desired)
C14_Witness ==
  /\ last.op = "Observe" /\ last.isExt /\ last.exists
  /\ last.utd /\ ~upToDate(observed, last.before)


\* C15: lateInit returns true exactly when it changed the desired struct, and
\* so Observe's lateInitialized flag is true exactly when that Observe call
\* changed the desired state.
C15_LateInitFlagIffMutated ==
  /\ last.op = "lateInit" => (last.li <=> desired # last.before)
  /\ (last.op = "Observe" /\ last.isExt) => (last.li <=> desired # last.before)


\* C16: Create, Observe and Delete act on the same identity: the Observe that
\* follows a successful Create returns Found, and the Observe that follows a
\* successful Delete returns NotFound (the lookup itself not failing).
C16_SameIdentity ==
  [][/\ (/\ last.op = "Create" /\ last.isExt /\ last.err = NilErr
         /\ last'.op = "Observe" /\ last'.isExt /\ last'.cause \in {NilErr, ErrNoRows})
        => last'.exists
     /\ (/\ last.op = "Delete" /\ last.isExt /\ last.err = NilErr
         /\ last'.op = "Observe" /\ last'.isExt /\ last'.cause \in {NilErr, ErrNoRows})
        => (~last'.exists /\ last'.err = NilErr)]_vars


\* C17: when the row exists with version v and the desired state has a set
\* name and a set version w other than v, Observe returns Found, not up to
\* date and not late initialized, and desired.version stays w; and an unset
\* desired version compared by upToDate with the concrete observed version is
\* not up to date.
C17_DriftDetected ==
  (last.op = "Observe" /\ last.isExt /\ last.exists) =>
    /\ (/\ last.before.Extension # EmptyString
        /\ last.before.Version # Nil
        /\ last.before.Version # observed.Version)
       => (/\ ~last.utd /\ ~last.li
           /\ desired.Version = last.before.Version
           /\ desired = last.before)
    /\ observed.Version # Nil
    /\ ~upToDate(observed, [last.before EXCEPT !.Version = Nil])
C17_Witness ==
  /\ last.op = "Observe" /\ last.isExt /\ last.exists
  /\ last.before.Extension = extName /\ extName # EmptyString
  /\ last.before.Version # Nil /\ last.before.Version # observed.Version
  /\ ~last.utd


\* C18: a call sets the Available condition exactly when it is an Observe that
\* found the live resource; an Observe returning NotFound or an error, and
\* Connect, Create, Update and Delete, leave the condition as it was.
C18_AvailableIffFound ==
  [][/\ (last'.op = "Observe" /\ last'.isExt /\ last'.exists)
        => (available' /\ last'.conds = {"Available"})
     /\ ~(last'.op = "Observe" /\ last'.isExt /\ last'.exists)
        => (available' = available /\ last'.conds = {})]_vars
C18_Witness ==
  /\ last.op = "Observe" /\ last.isExt /\ last.exists
  /\ available /\ last.conds = {"Available"}

====
